---- MODULE Spec2Model ----
(***************************************************************************)
(* Model of packages/kit/src/components/WalletProvider.tsx: the wallet     *)
(* registry (useAvailableWallets), the session state held by               *)
(* WalletProvider (walletAdapter, status) and the operations connect,      *)
(* disconnect, select and the guarded facade operations.                   *)
(*                                                                         *)
(* Execution is the JavaScript event loop: the synchronous part of a call  *)
(* is one action; an awaited adapter promise is a suspension, and its      *)
(* settlement together with the continuation that it resumes is another    *)
(* action.  A callback invoked by the UI is the callback of the current    *)
(* render, so it reads the walletAdapter/status/allAvailableWallets that   *)
(* are current when it is invoked and keeps those values (its closure)     *)
(* across its suspensions.                                                 *)
(*                                                                         *)
(* Modelling decisions:                                                    *)
(*  - the two state setters that every branch calls back to back           *)
(*    (setWalletAdapter, setStatus) are one write: no suspension lies      *)
(*    between them;                                                        *)
(*  - a settled adapter promise may resume its continuation while another  *)
(*    continuation is still queued (after `await disconnect()`) when that  *)
(*    continuation was queued by an adapter settlement: an adapter may     *)
(*    settle several of its promises in one task.  It may not when the     *)
(*    continuation was queued by the UI call itself (disconnect without    *)
(*    the adapter feature), and a UI event never runs in between;          *)
(*  - in Spec the configured and detected wallet lists do not change       *)
(*    while the session runs; SpecRegistry lets them change and checks     *)
(*    useAvailableWallets on its own;                                      *)
(*  - `live` is a history variable about the adapters (it is never read    *)
(*    by an action's guard) and `ev` records the step just taken.          *)
(***************************************************************************)
EXTENDS Integers, Sequences, FiniteSets, Bags, TLC

(* ---------------------------- bounds ----------------------------------- *)
\* operations that may be suspended in an adapter call at the same time
MaxInFlight == 2
\* longest configured list explored by the registry specification
MaxConfigured == 2
\* longest detected list explored by the registry specification
MaxDetected == 2

(* ------------------------- adapters (opaque) --------------------------- *)
\* `undefined` where an adapter reference is expected
NoAdapter == 0

FeatureDisconnect == "standard:disconnect"

\* The adapter objects of the host environment.  Adapters are opaque to the
\* provider: it reads name, icon, accounts and hasFeature, and calls
\* connect/disconnect/signMessage/signAndExecuteTransaction.
AdapterById ==
  [i \in 1..4 |->
     CASE i = 1 -> [name |-> "A", icon |-> "iconA", features |-> {FeatureDisconnect},
                    accounts |-> << [address |-> "0x1", publicKey |-> "pk1"],
                                    [address |-> "0x2", publicKey |-> "pk2"] >>]
       [] i = 2 -> [name |-> "B", icon |-> "iconB", features |-> {},
                    accounts |-> << [address |-> "0x3", publicKey |-> "pk3"] >>]
       [] i = 3 -> [name |-> "C", icon |-> "iconC", features |-> {FeatureDisconnect},
                    accounts |-> << >>]
       [] i = 4 -> [name |-> "A", icon |-> "iconA2", features |-> {FeatureDisconnect},
                    accounts |-> << [address |-> "0x4", publicKey |-> "pk4"] >>]]

AdapterIds == DOMAIN AdapterById

\* mutant: every adapter is taken to have every feature
hasFeature_Always(a, f) == TRUE

hasFeature(a, f) == f \in AdapterById[a].features

\* names a caller may pass to select
WalletNames == {"A", "B", "C", "D"}

\* a configured (default) wallet: IDefaultWallet
DefaultWallet(n) == [name |-> n, iconUrl |-> "cfg-icon", downloadUrl |-> "cfg-url"]

(* ----------------------------- helpers --------------------------------- *)
isNonEmptyArray(arr) == Len(arr) > 0

\* Array.prototype.filter
Filter(s, keep(_)) ==
  LET F[i \in 0..Len(s)] ==
        IF i = 0 THEN << >>
        ELSE IF keep(s[i]) THEN Append(F[i-1], s[i]) ELSE F[i-1]
  IN F[Len(s)]

\* Array.prototype.find over a list of adapter ids: index of the first adapter
\* with the given name, 0 when there is none
FindIndex(s, hit(_)) ==
  IF \E i \in 1..Len(s) : hit(s[i])
  THEN CHOOSE i \in 1..Len(s) : hit(s[i]) /\ \A j \in 1..(i-1) : ~hit(s[j])
  ELSE 0

(* ------------------------ useAvailableWallets -------------------------- *)
ComputeConfiguredWallets(defaultWallets, availableWalletAdapters) ==
  IF ~isNonEmptyArray(defaultWallets) THEN << >>
  ELSE IF ~isNonEmptyArray(availableWalletAdapters)
  THEN [i \in 1..Len(defaultWallets) |->
          [name |-> defaultWallets[i].name, iconUrl |-> defaultWallets[i].iconUrl,
           downloadUrl |-> defaultWallets[i].downloadUrl,
           adapter |-> NoAdapter, installed |-> FALSE]]
  ELSE [i \in 1..Len(defaultWallets) |->
          LET item == defaultWallets[i]
              k == FindIndex(availableWalletAdapters,
                             LAMBDA a : item.name = AdapterById[a].name)
          IN IF k # 0
             THEN [name |-> item.name, iconUrl |-> item.iconUrl,
                   downloadUrl |-> item.downloadUrl,
                   adapter |-> availableWalletAdapters[k], installed |-> TRUE]
             ELSE [name |-> item.name, iconUrl |-> item.iconUrl,
                   downloadUrl |-> item.downloadUrl,
                   adapter |-> NoAdapter, installed |-> FALSE]]

\* mutant: detected adapters are not filtered against the configured list
ComputeDetectedWallets_NoFilter(defaultWallets, availableWalletAdapters) ==
  [i \in 1..Len(availableWalletAdapters) |->
     [name |-> AdapterById[availableWalletAdapters[i]].name,
      adapter |-> availableWalletAdapters[i],
      installed |-> TRUE, iconUrl |-> AdapterById[availableWalletAdapters[i]].icon,
      downloadUrl |-> ""]]

ComputeDetectedWallets(defaultWallets, availableWalletAdapters) ==
  IF ~isNonEmptyArray(availableWalletAdapters) THEN << >>
  ELSE LET kept == Filter(availableWalletAdapters,
                          LAMBDA a : FindIndex(defaultWallets,
                                       LAMBDA w : w.name = AdapterById[a].name) = 0)
       IN [i \in 1..Len(kept) |->
             [name |-> AdapterById[kept[i]].name, adapter |-> kept[i],
              installed |-> TRUE, iconUrl |-> AdapterById[kept[i]].icon,
              downloadUrl |-> ""]]

\* mutant: the installed filter is missing
ComputeAllAvailableWallets_NoFilter(cw, dw) == cw \o dw

ComputeAllAvailableWallets(cw, dw) ==
  Filter(cw \o dw, LAMBDA w : w.installed)

(* ------------------------------ errors --------------------------------- *)
NoError == [kind |-> "none", message |-> "", adapter |-> NoAdapter, method |-> ""]

\* new KitError(message)
KitError(m) == [kind |-> "KitError", message |-> m, adapter |-> NoAdapter, method |-> ""]

\* the value an adapter promise rejects with; opaque to the provider
AdapterFailure(a, m) == [kind |-> "AdapterError", message |-> "", adapter |-> a, method |-> m]

\* calling a method or reading a property of `undefined`
TypeError(m) == [kind |-> "TypeError", message |-> m, adapter |-> NoAdapter, method |-> ""]

NotConnectedMsg == "Failed to call function, wallet not connected"
NoActiveAccountMsg == "no active account"
AdapterMissingMsg == "param adapter is missing"

\* Array.prototype.join(', ') over the names of a wallet list
JoinNames(wallets) ==
  LET J[i \in 0..Len(wallets)] ==
        IF i = 0 THEN ""
        ELSE IF i = 1 THEN wallets[1].name
        ELSE J[i-1] \o ", " \o wallets[i].name
  IN J[Len(wallets)]

\* mutant: the message leaves out the requested wallet name
SelectNotAvailableError_NoName(walletName, wallets) ==
  KitError("select failed: wallet is not available, all wallets are listed here: ["
           \o JoinNames(wallets) \o "]")

\* the KitError select throws when the wallet is not found
SelectNotAvailableError(walletName, wallets) ==
  KitError("select failed: wallet " \o walletName
           \o " is not available, all wallets are listed here: ["
           \o JoinNames(wallets) \o "]")

(* ------------------------------- state --------------------------------- *)
VARIABLES
  defaultWallets,            \* props.defaultWallets
  availableWalletAdapters,   \* data of useWalletAdapterDetection()
  configuredWallets,         \* useMemo results of useAvailableWallets
  detectedWallets,
  allAvailableWallets,
  walletAdapter,             \* useState<IWalletAdapter | undefined>
  status,                    \* useState<ConnectionStatus>
  ops,                       \* the suspended async calls (select / disconnect),
                             \* a bag of their closures
  live,                      \* adapters whose connect resolved and on which no
                             \* disconnect() of the provider has completed since
  ev                         \* the step just taken: what was called, what it
                             \* called on adapters, how it ended

registryVars == << defaultWallets, availableWalletAdapters, configuredWallets,
                   detectedWallets, allAvailableWallets >>
sessionVars == << walletAdapter, status, ops, live, ev >>
vars == << defaultWallets, availableWalletAdapters, configuredWallets,
           detectedWallets, allAvailableWallets, walletAdapter, status, ops,
           live, ev >>

DISCONNECTED == "disconnected"
CONNECTING == "connecting"
CONNECTED == "connected"

NewOp == [kind |-> "none", pc |-> "start", walletName |-> "", wallets |-> << >>,
           adapter |-> NoAdapter, target |-> NoAdapter,
           wasCallable |-> FALSE, disc |-> "none", reset |-> FALSE]

NoEvent == [op |-> "init", step |-> "none", walletName |-> "",
            adapter |-> NoAdapter,
            pre |-> [walletAdapter |-> NoAdapter, status |-> DISCONNECTED],
            outcome |-> "none", error |-> NoError, value |-> << >>,
            calls |-> << >>]

\* an adapter method invocation
Call(a, m, arg) == [adapter |-> a, method |-> m, arg |-> arg]

(* ------------------------- capability gate ----------------------------- *)
isCallable(wa, st) == wa # NoAdapter /\ st = CONNECTED

\* mutant: a session that is still connecting passes the guard
ensureCallable_IgnoreConnecting(wa, st) ==
  IF st = DISCONNECTED THEN KitError(NotConnectedMsg) ELSE NoError

\* mutant: the guard never throws
ensureCallable_Never(wa, st) == NoError

\* the error ensureCallable throws, NoError when it returns
ensureCallable(wa, st) ==
  IF ~isCallable(wa, st) THEN KitError(NotConnectedMsg) ELSE NoError

\* mutant: the last account is taken instead of the first
account_Last(wa, st) ==
  IF ~isCallable(wa, st) THEN << >>
  ELSE IF Len(AdapterById[wa].accounts) = 0 THEN << >>
  ELSE << AdapterById[wa].accounts[Len(AdapterById[wa].accounts)] >>

\* useMemo account: first account of the adapter when callable
account(wa, st) ==
  IF ~isCallable(wa, st) THEN << >>
  ELSE IF Len(AdapterById[wa].accounts) = 0 THEN << >>
  ELSE << AdapterById[wa].accounts[1] >>

(* ---------------------- session writes of the code --------------------- *)
\* connect: the synchronous prefix, setStatus(CONNECTING)
ConnectBegin(wa, st) == [walletAdapter |-> wa, status |-> CONNECTING]

\* mutant: setStatus(CONNECTED) is missing
ConnectOnSuccess_NoStatus(wa, st, a) == [walletAdapter |-> a, status |-> st]

\* connect: after adapter.connect resolved
ConnectOnSuccess(wa, st, a) == [walletAdapter |-> a, status |-> CONNECTED]

\* mutant: the catch block wraps the failure in a KitError
ConnectOnFailure_Wrapped(wa, st, e) ==
  [walletAdapter |-> NoAdapter, status |-> DISCONNECTED,
   thrown |-> KitError("connect failed")]

\* mutant: the catch block resets the status only
ConnectOnFailure_KeepAdapter(wa, st, e) ==
  [walletAdapter |-> wa, status |-> DISCONNECTED, thrown |-> e]

\* connect: the catch block; e is what adapter.connect rejected with
ConnectOnFailure(wa, st, e) ==
  [walletAdapter |-> NoAdapter, status |-> DISCONNECTED, thrown |-> e]

\* mutant: the finally block resets the status only
DisconnectFinally_KeepAdapter(wa, st) == [walletAdapter |-> wa, status |-> DISCONNECTED]

\* mutant: the reset is missing
DisconnectFinally_NoReset(wa, st) == [walletAdapter |-> wa, status |-> st]

\* disconnect: the finally block
DisconnectFinally(wa, st) == [walletAdapter |-> NoAdapter, status |-> DISCONNECTED]

\* mutant: the same-wallet shortcut is missing
SameWallet_Never(walletName, a) == FALSE

\* select: "Same wallet, ignore"
SameWallet(walletName, a) == walletName = AdapterById[a].name

\* mutant: the first wallet of the list is taken whatever its name
FindWallet_First(wallets, walletName) == IF Len(wallets) > 0 THEN 1 ELSE 0

\* select: allAvailableWallets.find(wallet => wallet.name === walletName)
FindWallet(wallets, walletName) ==
  FindIndex(wallets, LAMBDA w : w.name = walletName)

(* --------------------------- event loop -------------------------------- *)
InFlight == BagToSet(ops)
CanSuspend == BagCardinality(ops) < MaxInFlight
Suspend(o) == ops (+) SetToBag({o})
Finish(o) == ops (-) SetToBag({o})

\* A UI event is a task of its own: it runs only when no continuation is
\* ready to run (the microtask queue is empty).  Continuations of settled
\* promises may run in any order.
UICallEnabled == \A o \in InFlight : o.pc # "awaitDisconnect"

\* An adapter promise settles in a task of the adapter: not while the
\* continuation that a UI call queued for itself (a select whose disconnect
\* made no adapter call) is still waiting to run.
SettleEnabled == \A o \in InFlight : ~(o.pc = "awaitDisconnect" /\ o.disc = "none")

Event(op, step, walletName, outcome, error, value, calls) ==
  [op |-> op, step |-> step, walletName |-> walletName,
   adapter |-> NoAdapter,
   pre |-> [walletAdapter |-> walletAdapter, status |-> status],
   outcome |-> outcome, error |-> error, value |-> value, calls |-> calls]

\* the same, for a step that is the settlement of a call on adapter a
EventOn(a, e) == [e EXCEPT !.adapter = a]

(* ------------------------------ select --------------------------------- *)
\* select, from `allAvailableWallets.find` on: resolve the name, then connect
\* up to the await of adapter.connect.  rest is the in-flight operations
\* other than this select, o its closure; step is "call" when this is reached
\* within the call itself and "resume" when reached after `await disconnect()`.
SelectResolveAndConnect(rest, o, step) ==
  LET k == FindWallet(o.wallets, o.walletName) IN
  IF k = 0
  THEN /\ ops' = rest
       /\ ev' = Event("select", step, o.walletName, "rejected",
                      SelectNotAvailableError(o.walletName, o.wallets), << >>, << >>)
       /\ UNCHANGED << walletAdapter, status, live >>
  ELSE LET adapter == o.wallets[k].adapter IN
       IF adapter = NoAdapter
       THEN /\ ops' = rest
            /\ ev' = Event("select", step, o.walletName, "rejected",
                           KitError(AdapterMissingMsg), << >>, << >>)
            /\ UNCHANGED << walletAdapter, status, live >>
       ELSE LET b == ConnectBegin(walletAdapter, status) IN
            /\ walletAdapter' = b.walletAdapter
            /\ status' = b.status
            /\ ops' = rest (+) SetToBag({[o EXCEPT !.pc = "awaitAdapterConnect",
                                                   !.target = adapter]})
            /\ ev' = Event("select", step, o.walletName, "pending", NoError,
                           << >>, << Call(adapter, "connect", << >>) >>)
            /\ UNCHANGED live

\* the UI invokes select(walletName) of the current render
SelectCall(walletName) ==
  /\ UICallEnabled
  /\ IF isCallable(walletAdapter, status)
     THEN IF SameWallet(walletName, walletAdapter)
          THEN /\ ev' = Event("select", "call", walletName, "resolved", NoError,
                              << >>, << >>)
               /\ UNCHANGED << walletAdapter, status, ops, live >>
          ELSE \* await disconnect(): runs disconnect up to its first suspension
               /\ CanSuspend
               /\ LET o == [NewOp EXCEPT !.kind = "select", !.walletName = walletName,
                                          !.wallets = allAvailableWallets,
                                          !.adapter = walletAdapter,
                                          !.wasCallable = TRUE]
                  IN IF hasFeature(walletAdapter, FeatureDisconnect)
                     THEN /\ ops' = Suspend([o EXCEPT !.pc = "awaitAdapterDisconnect",
                                                      !.disc = "pending"])
                          /\ ev' = Event("select", "call", walletName, "pending",
                                         NoError, << >>,
                                         << Call(walletAdapter, "disconnect", << >>) >>)
                          /\ UNCHANGED << walletAdapter, status, live >>
                     ELSE LET fin == DisconnectFinally(walletAdapter, status) IN
                          /\ walletAdapter' = fin.walletAdapter
                          /\ status' = fin.status
                          /\ live' = live \ {walletAdapter}
                          /\ ops' = Suspend([o EXCEPT !.pc = "awaitDisconnect",
                                               !.reset = (fin.walletAdapter = NoAdapter
                                                          /\ fin.status = DISCONNECTED)])
                          /\ ev' = Event("select", "call", walletName, "pending",
                                         NoError, << >>, << >>)
     ELSE /\ CanSuspend
          /\ SelectResolveAndConnect(ops,
               [NewOp EXCEPT !.kind = "select", !.walletName = walletName,
                              !.wallets = allAvailableWallets], "call")
  /\ UNCHANGED registryVars

\* select continues after `await disconnect()` resolved
SelectResume(o) ==
  /\ o \in InFlight
  /\ o.pc = "awaitDisconnect"
  /\ SelectResolveAndConnect(Finish(o), o, "resume")
  /\ UNCHANGED registryVars

(* ---------------------------- disconnect ------------------------------- *)
\* the UI invokes disconnect() of the current render
DisconnectCall ==
  /\ UICallEnabled
  /\ LET e == ensureCallable(walletAdapter, status) IN
     IF e # NoError
     THEN /\ ev' = Event("disconnect", "call", "", "rejected", e, << >>, << >>)
          /\ UNCHANGED << walletAdapter, status, ops, live >>
     ELSE IF walletAdapter = NoAdapter
     THEN \* adapter.hasFeature throws inside the try; the finally block runs
          LET fin == DisconnectFinally(walletAdapter, status) IN
          /\ walletAdapter' = fin.walletAdapter
          /\ status' = fin.status
          /\ ev' = Event("disconnect", "call", "", "rejected",
                         TypeError("hasFeature of undefined"), << >>, << >>)
          /\ UNCHANGED << ops, live >>
     ELSE IF hasFeature(walletAdapter, FeatureDisconnect)
     THEN /\ CanSuspend
          /\ ops' = Suspend([NewOp EXCEPT !.kind = "disconnect",
                                           !.pc = "awaitAdapterDisconnect",
                                           !.adapter = walletAdapter,
                                           !.wasCallable = TRUE, !.disc = "pending"])
          /\ ev' = Event("disconnect", "call", "", "pending", NoError, << >>,
                         << Call(walletAdapter, "disconnect", << >>) >>)
          /\ UNCHANGED << walletAdapter, status, live >>
     ELSE LET fin == DisconnectFinally(walletAdapter, status) IN
          /\ walletAdapter' = fin.walletAdapter
          /\ status' = fin.status
          /\ live' = live \ {walletAdapter}
          /\ ev' = Event("disconnect", "call", "", "resolved", NoError, << >>, << >>)
          /\ UNCHANGED ops
  /\ UNCHANGED registryVars

\* mutant: select swallows the rejection of disconnect() and goes on
SelectContinuesAfterDisconnect_Swallow(ok) == TRUE

\* select: `await disconnect()` has no catch, select goes on to resolve the
\* name only when disconnect() resolved (ok)
SelectContinuesAfterDisconnect(ok) == ok

\* adapter.disconnect() settles (ok: resolves, otherwise rejects); the
\* finally block of disconnect runs, then disconnect() itself settles
AdapterDisconnectSettles(o, ok) ==
  /\ SettleEnabled
  /\ o \in InFlight
  /\ o.pc = "awaitAdapterDisconnect"
  /\ LET fin == DisconnectFinally(walletAdapter, status)
         isReset == fin.walletAdapter = NoAdapter /\ fin.status = DISCONNECTED
         err == AdapterFailure(o.adapter, "disconnect")
     IN /\ walletAdapter' = fin.walletAdapter
        /\ status' = fin.status
        /\ live' = live \ {o.adapter}
        /\ IF o.kind = "select" /\ SelectContinuesAfterDisconnect(ok)
           THEN /\ ops' = Finish(o) (+)
                            SetToBag({[o EXCEPT !.pc = "awaitDisconnect",
                                                !.disc = "settled",
                                                !.reset = isReset]})
                /\ ev' = EventOn(o.adapter,
                            Event(o.kind, IF ok THEN "disconnectResolved"
                                                ELSE "disconnectRejected",
                                  o.walletName, "pending", NoError, << >>, << >>))
           ELSE /\ ops' = Finish(o)
                /\ ev' = EventOn(o.adapter,
                            Event(o.kind, IF ok THEN "disconnectResolved"
                                                ELSE "disconnectRejected",
                                  o.walletName,
                                  IF ok THEN "resolved" ELSE "rejected",
                                  IF ok THEN NoError ELSE err, << >>, << >>))
  /\ UNCHANGED registryVars

(* ----------------------------- connect --------------------------------- *)
\* adapter.connect() settles; connect's try or catch branch runs and select,
\* which awaits connect last, settles the same way
AdapterConnectSettles(o, ok) ==
  /\ SettleEnabled
  /\ o \in InFlight
  /\ o.pc = "awaitAdapterConnect"
  /\ IF ok
     THEN LET r == ConnectOnSuccess(walletAdapter, status, o.target) IN
          /\ walletAdapter' = r.walletAdapter
          /\ status' = r.status
          /\ live' = live \cup {o.target}
          /\ ev' = EventOn(o.target,
                      Event("select", "connectResolved", o.walletName,
                            "resolved", NoError, << >>, << >>))
     ELSE LET r == ConnectOnFailure(walletAdapter, status,
                                    AdapterFailure(o.target, "connect")) IN
          /\ walletAdapter' = r.walletAdapter
          /\ status' = r.status
          /\ live' = live
          /\ ev' = EventOn(o.target,
                      Event("select", "connectRejected", o.walletName,
                            "rejected", r.thrown, << >>, << >>))
  /\ ops' = Finish(o)
  /\ UNCHANGED registryVars

(* -------------------------- operation facade -------------------------- *)
Messages == {"hello"}

\* signAndExecuteTransaction of the current render, from its guard on; op is
\* the facade operation the UI invoked (executeMoveCall delegates to it)
SignAndExecuteBody(op, ok) ==
  LET e == ensureCallable(walletAdapter, status) IN
  IF e # NoError
  THEN ev' = Event(op, "call", "", "rejected", e, << >>, << >>)
  ELSE IF walletAdapter = NoAdapter
  THEN ev' = Event(op, "call", "", "rejected",
                   TypeError("signAndExecuteTransaction of undefined"), << >>, << >>)
  ELSE ev' = Event(op, "call", "",
                   IF ok THEN "resolved" ELSE "rejected",
                   IF ok THEN NoError
                   ELSE AdapterFailure(walletAdapter, "signAndExecuteTransaction"),
                   IF ok THEN << "txResult" >> ELSE << >>,
                   << Call(walletAdapter, "signAndExecuteTransaction", << >>) >>)

GetAccounts ==
  /\ UICallEnabled
  /\ LET e == ensureCallable(walletAdapter, status) IN
     IF e # NoError
     THEN ev' = Event("getAccounts", "call", "", "rejected", e, << >>, << >>)
     ELSE IF walletAdapter = NoAdapter
     THEN ev' = Event("getAccounts", "call", "", "rejected",
                      TypeError("accounts of undefined"), << >>, << >>)
     ELSE ev' = Event("getAccounts", "call", "", "resolved", NoError,
                      AdapterById[walletAdapter].accounts, << >>)
  /\ UNCHANGED << walletAdapter, status, ops, live >>
  /\ UNCHANGED registryVars

\* mutant: a rejected adapter call resets the session
SignAndExecuteTransaction_ResetOnFailure(ok) ==
  /\ UICallEnabled
  /\ SignAndExecuteBody("signAndExecuteTransaction", ok)
  /\ IF isCallable(walletAdapter, status) /\ ~ok
     THEN walletAdapter' = NoAdapter /\ status' = DISCONNECTED
     ELSE UNCHANGED << walletAdapter, status >>
  /\ UNCHANGED << ops, live >>
  /\ UNCHANGED registryVars

SignAndExecuteTransaction(ok) ==
  /\ UICallEnabled
  /\ SignAndExecuteBody("signAndExecuteTransaction", ok)
  /\ UNCHANGED << walletAdapter, status, ops, live >>
  /\ UNCHANGED registryVars

SignMessage(message, ok) ==
  /\ UICallEnabled
  /\ LET e == ensureCallable(walletAdapter, status)
         acc == account(walletAdapter, status)
     IN IF e # NoError
        THEN ev' = Event("signMessage", "call", "", "rejected", e, << >>, << >>)
        ELSE IF acc = << >>
        THEN ev' = Event("signMessage", "call", "", "rejected",
                         KitError(NoActiveAccountMsg), << >>, << >>)
        ELSE ev' = Event("signMessage", "call", "",
                         IF ok THEN "resolved" ELSE "rejected",
                         IF ok THEN NoError
                         ELSE AdapterFailure(walletAdapter, "signMessage"),
                         IF ok THEN << "signature" >> ELSE << >>,
                         << Call(walletAdapter, "signMessage",
                                 << acc[1].address, message >>) >>)
  /\ UNCHANGED << walletAdapter, status, ops, live >>
  /\ UNCHANGED registryVars

ExecuteMoveCall(ok) ==
  /\ UICallEnabled
  /\ LET e == ensureCallable(walletAdapter, status) IN
     IF e # NoError
     THEN ev' = Event("executeMoveCall", "call", "", "rejected", e, << >>, << >>)
     ELSE SignAndExecuteBody("executeMoveCall", ok)
  /\ UNCHANGED << walletAdapter, status, ops, live >>
  /\ UNCHANGED registryVars

GetPublicKey ==
  /\ UICallEnabled
  /\ LET e == ensureCallable(walletAdapter, status)
         acc == account(walletAdapter, status)
     IN IF e # NoError
        THEN ev' = Event("getPublicKey", "call", "", "rejected", e, << >>, << >>)
        ELSE IF acc = << >>
        THEN ev' = Event("getPublicKey", "call", "", "rejected",
                         TypeError("publicKey of undefined"), << >>, << >>)
        ELSE ev' = Event("getPublicKey", "call", "", "resolved", NoError,
                         << acc[1].publicKey >>, << >>)
  /\ UNCHANGED << walletAdapter, status, ops, live >>
  /\ UNCHANGED registryVars

(* --------------------------- specifications ---------------------------- *)
\* the results of useAvailableWallets for the current inputs
RegistryIs(dw, ad) ==
  /\ defaultWallets = dw
  /\ availableWalletAdapters = ad
  /\ configuredWallets = ComputeConfiguredWallets(dw, ad)
  /\ detectedWallets = ComputeDetectedWallets(dw, ad)
  /\ allAvailableWallets =
       ComputeAllAvailableWallets(ComputeConfiguredWallets(dw, ad),
                                  ComputeDetectedWallets(dw, ad))

SessionInit ==
  /\ walletAdapter = NoAdapter
  /\ status = DISCONNECTED
  /\ ops = EmptyBag
  /\ live = {}
  /\ ev = NoEvent

\* the wallet list the session specification runs with: A is configured and
\* detected twice, D is configured and not detected, B and C are detected only
SessionDefaultWallets == << DefaultWallet("A"), DefaultWallet("D") >>
SessionDetected == << 1, 2, 3, 4 >>

Init ==
  /\ RegistryIs(SessionDefaultWallets, SessionDetected)
  /\ SessionInit

Next ==
  \/ \E n \in WalletNames : SelectCall(n)
  \/ \E o \in InFlight : SelectResume(o)
  \/ DisconnectCall
  \/ \E o \in InFlight, ok \in BOOLEAN : AdapterDisconnectSettles(o, ok)
  \/ \E o \in InFlight, ok \in BOOLEAN : AdapterConnectSettles(o, ok)
  \/ GetAccounts
  \/ \E ok \in BOOLEAN : SignAndExecuteTransaction(ok)
  \/ \E m \in Messages, ok \in BOOLEAN : SignMessage(m, ok)
  \/ \E ok \in BOOLEAN : ExecuteMoveCall(ok)
  \/ GetPublicKey

Spec == Init /\ [][Next]_vars

\* Every pending adapter connect call is eventually settled by its adapter,
\* and a continuation that is ready to run is run.
ConnectSettles == \E o \in InFlight, ok \in BOOLEAN : AdapterConnectSettles(o, ok)
Resumes == \E o \in InFlight : SelectResume(o)

SpecLive == Spec /\ WF_vars(ConnectSettles) /\ WF_vars(Resumes)

\* ---- the registry on its own: the inputs of useAvailableWallets change and
\* ---- the memoised results are recomputed
SeqsUpTo(S, n) == UNION {[1..k -> S] : k \in 0..n}

ConfiguredLists == SeqsUpTo({DefaultWallet(n) : n \in WalletNames}, MaxConfigured)
DetectedLists == SeqsUpTo(AdapterIds, MaxDetected)

RegistryInit ==
  /\ RegistryIs(<< >>, << >>)
  /\ SessionInit

\* a render: the memoised results are recomputed from the (new) inputs
Rerender(dw, ad) ==
  /\ defaultWallets' = dw
  /\ availableWalletAdapters' = ad
  /\ configuredWallets' = ComputeConfiguredWallets(dw, ad)
  /\ detectedWallets' = ComputeDetectedWallets(dw, ad)
  /\ allAvailableWallets' =
       ComputeAllAvailableWallets(ComputeConfiguredWallets(dw, ad),
                                  ComputeDetectedWallets(dw, ad))

\* a render with a new defaultWallets prop
SetDefaultWallets(dw) ==
  /\ dw # defaultWallets
  /\ Rerender(dw, availableWalletAdapters)
  /\ UNCHANGED sessionVars

\* the detection hook reports a new adapter list
DetectionUpdate(ad) ==
  /\ ad # availableWalletAdapters
  /\ Rerender(defaultWallets, ad)
  /\ UNCHANGED sessionVars

RegistryNext ==
  \/ \E dw \in ConfiguredLists : SetDefaultWallets(dw)
  \/ \E ad \in DetectedLists : DetectionUpdate(ad)

SpecRegistry == RegistryInit /\ [][RegistryNext]_vars

(* ------------------------------ claims --------------------------------- *)
NoOpInFlight == ops = EmptyBag
SessionIs(wa, st) == walletAdapter = wa /\ status = st
FacadeOps == {"getAccounts", "signMessage", "signAndExecuteTransaction",
              "getPublicKey", "executeMoveCall"}

\* C1: when adapter.connect rejects inside connect, the session right after
\* the rejection is Disconnected with no adapter, whatever it was before, and
\* the caller is rejected with the very failure the adapter rejected with.
C1_ConnectRejectionResets ==
  ev.step = "connectRejected" =>
    /\ SessionIs(NoAdapter, DISCONNECTED)
    /\ ev.outcome = "rejected"
    /\ ev.error = AdapterFailure(ev.adapter, "connect")

\* C1 witness: a connect is rejected while the session holds an adapter that
\* an overlapping connect installed in the meantime
C1_Witness ==
  /\ ev.step = "connectRejected"
  /\ ev.pre.status = CONNECTED
  /\ ev.pre.walletAdapter # NoAdapter

\* C2: when disconnect() runs on a callable session and adapter.disconnect
\* throws, the session ends Disconnected with no adapter and disconnect()
\* rejects with the adapter's failure.
C2_DisconnectThrowStillResets ==
  (ev.op = "disconnect" /\ ev.step = "disconnectRejected") =>
    /\ SessionIs(NoAdapter, DISCONNECTED)
    /\ ev.outcome = "rejected"
    /\ ev.error = AdapterFailure(ev.adapter, "disconnect")

\* C2 witness: a disconnect() whose adapter call threw, on the adapter the
\* session was connected to
C2_Witness ==
  /\ ev.op = "disconnect"
  /\ ev.step = "disconnectRejected"
  /\ ev.pre.walletAdapter = ev.adapter
  /\ ev.pre.status = CONNECTED

\* C3: a facade operation invoked while the adapter is absent or the status
\* is not Connected fails with the NotConnected KitError and calls no adapter.
C3_GuardedWhenNotCallable ==
  (ev.op \in FacadeOps /\ (ev.pre.walletAdapter = NoAdapter \/ ev.pre.status # CONNECTED)) =>
    /\ ev.outcome = "rejected"
    /\ ev.error = KitError(NotConnectedMsg)
    /\ ev.calls = << >>

\* C3 witness: a facade operation refused while a connect is in flight
C3_Witness ==
  /\ ev.op = "signMessage"
  /\ ev.pre.status = CONNECTING
  /\ ev.error = KitError(NotConnectedMsg)

\* C4: select(name) invoked while Connected to the adapter of that name is a
\* no-op: it returns at once, calls no adapter and leaves status and adapter
\* as they were.
C4_ReselectIsNoOp ==
  (/\ ev.op = "select" /\ ev.step = "call"
   /\ ev.pre.walletAdapter # NoAdapter /\ ev.pre.status = CONNECTED
   /\ AdapterById[ev.pre.walletAdapter].name = ev.walletName) =>
    /\ ev.calls = << >>
    /\ ev.outcome = "resolved"
    /\ SessionIs(ev.pre.walletAdapter, ev.pre.status)

\* C4 witness: the connected wallet is selected again
C4_Witness ==
  /\ ev.op = "select" /\ ev.step = "call"
  /\ ev.pre.status = CONNECTED
  /\ ev.pre.walletAdapter # NoAdapter
  /\ AdapterById[ev.pre.walletAdapter].name = ev.walletName
  /\ ev.outcome = "resolved"

\* C5: a select that found the session connected to another wallet has its
\* connect call in flight only after its disconnect is over: the adapter's
\* disconnect call (made exactly when the adapter has the feature) has
\* settled and the session reset has been executed.
C5_DisconnectBeforeConnect ==
  \A o \in InFlight :
    (o.kind = "select" /\ o.wasCallable /\ o.pc = "awaitAdapterConnect") =>
      /\ o.reset
      /\ o.disc # "pending"
      /\ (o.disc = "settled") = hasFeature(o.adapter, FeatureDisconnect)

\* C5 witness: select(B) issued while connected to A has called A's
\* disconnect, seen it settle, and is now waiting for B's connect
C5_Witness ==
  \E o \in InFlight :
    /\ o.kind = "select" /\ o.wasCallable
    /\ o.pc = "awaitAdapterConnect"
    /\ o.disc = "settled"
    /\ o.target # o.adapter

\* the name is the name of no entry of allAvailableWallets
UnknownName(n) == \A i \in 1..Len(allAvailableWallets) : allAvailableWallets[i].name # n

\* the WalletNotAvailable failure for name n and the current wallet list
WalletNotAvailable(n) ==
  KitError("select failed: wallet " \o n
           \o " is not available, all wallets are listed here: ["
           \o JoinNames(allAvailableWallets) \o "]")

NoConnectCall == \A i \in 1..Len(ev.calls) : ev.calls[i].method # "connect"

C7_AvailableAreInstalled ==
  \A i \in 1..Len(allAvailableWallets) :
    allAvailableWallets[i].installed /\ allAvailableWallets[i].adapter # NoAdapter

\* C7 witness: a configured wallet is not installed while other wallets are
\* available
C7_Witness ==
  /\ \E i \in 1..Len(configuredWallets) : ~configuredWallets[i].installed
  /\ Len(allAvailableWallets) > 0
  /\ Len(detectedWallets) > 0

\* the reference merge of C8
DetectedWithName(n) ==
  {j \in 1..Len(availableWalletAdapters) : AdapterById[availableWalletAdapters[j]].name = n}
FirstDetectedWithName(n) ==
  availableWalletAdapters[CHOOSE j \in DetectedWithName(n) :
                            \A k \in DetectedWithName(n) : j <= k]
ConfiguredNames == {defaultWallets[i].name : i \in 1..Len(defaultWallets)}
IsUnconfigured(a) == AdapterById[a].name \notin ConfiguredNames
IsInstalled(w) == w.installed

\* C8: configuredWallets has one entry per configured descriptor, in order,
\* installed with the first detected adapter of that name when there is one
\* and not installed with no adapter otherwise; detectedWallets is the
\* detected adapters of unconfigured names in detection order;
\* allAvailableWallets is the installed configured entries followed by
\* detectedWallets.
C8_RegistryIsReferenceMerge ==
  /\ Len(configuredWallets) = Len(defaultWallets)
  /\ \A i \in 1..Len(defaultWallets) :
       LET n == defaultWallets[i].name
           w == configuredWallets[i]
       IN /\ w.name = n
          /\ w.iconUrl = defaultWallets[i].iconUrl
          /\ w.downloadUrl = defaultWallets[i].downloadUrl
          /\ IF DetectedWithName(n) # {}
             THEN w.installed /\ w.adapter = FirstDetectedWithName(n)
             ELSE ~w.installed /\ w.adapter = NoAdapter
  /\ [i \in 1..Len(detectedWallets) |-> detectedWallets[i].adapter]
       = SelectSeq(availableWalletAdapters, IsUnconfigured)
  /\ \A i \in 1..Len(detectedWallets) :
       /\ detectedWallets[i].installed
       /\ detectedWallets[i].name = AdapterById[detectedWallets[i].adapter].name
  /\ allAvailableWallets = SelectSeq(configuredWallets, IsInstalled) \o detectedWallets

\* C8 witness: configured [A, B], detected [adapterA]
C8_Witness ==
  /\ defaultWallets = << DefaultWallet("A"), DefaultWallet("B") >>
  /\ availableWalletAdapters = << 1 >>
  /\ Len(configuredWallets) = 2
  /\ configuredWallets[1].installed /\ configuredWallets[1].adapter = 1
  /\ ~configuredWallets[2].installed /\ configuredWallets[2].adapter = NoAdapter
  /\ detectedWallets = << >>
  /\ Len(allAvailableWallets) = 1 /\ allAvailableWallets[1].name = "A"

\* C9: whenever no operation is in flight the session agrees with the
\* adapters: it is Connected with adapter X exactly when X is the one adapter
\* whose connect succeeded and that was not disconnected since, and it is
\* Disconnected with no adapter exactly when there is no such adapter.
C9_SessionAgreesWithAdapters ==
  NoOpInFlight =>
    \/ live = {} /\ SessionIs(NoAdapter, DISCONNECTED)
    \/ \E x \in AdapterIds : live = {x} /\ SessionIs(x, CONNECTED)

\* C10 (as stated): the adapter is present iff the status is not Disconnected.
C10_AdapterIffNotDisconnected ==
  (walletAdapter # NoAdapter) <=> (status # DISCONNECTED)

\* C10 (amended): the adapter is present whenever the status is Connected and
\* absent whenever the status is Disconnected.
C10_AdapterMatchesSettledStatus ==
  /\ status = CONNECTED => walletAdapter # NoAdapter
  /\ status = DISCONNECTED => walletAdapter = NoAdapter

\* C10 witness: a connect was rejected while the session held an adapter, and
\* the session is Disconnected afterwards
C10_Witness ==
  /\ status = DISCONNECTED
  /\ ev.pre.walletAdapter # NoAdapter
  /\ ev.op = "select"
  /\ ev.outcome = "rejected"

\* the status changes the state machine allows
AllowedStatusChanges ==
  { << DISCONNECTED, CONNECTING >>, << CONNECTING, CONNECTED >>,
    << CONNECTING, DISCONNECTED >>, << CONNECTED, DISCONNECTED >> }

\* C11: the session starts Disconnected with no adapter, and every change of
\* status is Disconnected to Connecting, Connecting to Connected, Connecting
\* to Disconnected or Connected to Disconnected.
C11_OnlyAllowedStatusChanges ==
  /\ ev.op = "init" => SessionIs(NoAdapter, DISCONNECTED)
  /\ ev.pre.status # status => << ev.pre.status, status >> \in AllowedStatusChanges

\* C12: disconnect() invoked while the session is not callable fails with the
\* NotConnected KitError, calls no adapter method, leaves status and adapter
\* unchanged and leaves every suspended call, a connect in flight included,
\* as it was.
C12_DisconnectWhenNotCallable ==
  [][ (/\ ev'.op = "disconnect" /\ ev'.step = "call"
       /\ (walletAdapter = NoAdapter \/ status # CONNECTED))
      => /\ ev'.outcome = "rejected"
         /\ ev'.error = KitError(NotConnectedMsg)
         /\ ev'.calls = << >>
         /\ UNCHANGED << walletAdapter, status, ops, live >> ]_vars

\* C12 witness: disconnect() was refused while a connect is in flight, which
\* is still in flight
C12_Witness ==
  /\ ev.op = "disconnect" /\ ev.step = "call"
  /\ ev.outcome = "rejected"
  /\ ev.pre.status = CONNECTING
  /\ status = CONNECTING
  /\ \E o \in InFlight : o.pc = "awaitAdapterConnect"

\* the step just taken was invoked on a callable session
PreCallable == ev.pre.walletAdapter # NoAdapter /\ ev.pre.status = CONNECTED
PreAccounts == AdapterById[ev.pre.walletAdapter].accounts

\* C13: signMessage on a Connected session whose adapter has no account fails
\* with the NoActiveAccount KitError and does not call the adapter; when the
\* adapter has an account, adapter.signMessage is called exactly once, with
\* the adapter's first account and the message.
C13_SignMessageNeedsAccount ==
  (ev.op = "signMessage" /\ PreCallable) =>
    IF PreAccounts = << >>
    THEN /\ ev.outcome = "rejected"
         /\ ev.error = KitError(NoActiveAccountMsg)
         /\ ev.calls = << >>
    ELSE /\ Len(ev.calls) = 1
         /\ ev.calls[1].adapter = ev.pre.walletAdapter
         /\ ev.calls[1].method = "signMessage"
         /\ ev.calls[1].arg[1] = PreAccounts[1].address
         /\ ev.calls[1].arg[2] \in Messages

\* C13 witness: signMessage refused on a connected adapter without accounts
C13_Witness ==
  /\ ev.op = "signMessage" /\ PreCallable
  /\ PreAccounts = << >>
  /\ ev.error = KitError(NoActiveAccountMsg)

\* C14: getPublicKey on a Connected session whose adapter has no account
\* fails with the NoActiveAccount KitError.
C14_GetPublicKeyNoActiveAccount ==
  (ev.op = "getPublicKey" /\ PreCallable /\ PreAccounts = << >>) =>
    /\ ev.outcome = "rejected"
    /\ ev.error = KitError(NoActiveAccountMsg)

\* C15: disconnect() on a callable session calls adapter.disconnect exactly
\* when the adapter has the disconnect feature; with or without the call the
\* session is Disconnected with no adapter when disconnect() ends.
C15_DisconnectFeatureGated ==
  /\ (ev.op = "disconnect" /\ ev.step = "call" /\ PreCallable) =>
       IF FeatureDisconnect \in AdapterById[ev.pre.walletAdapter].features
       THEN /\ ev.calls = << Call(ev.pre.walletAdapter, "disconnect", << >>) >>
            /\ ev.outcome = "pending"
       ELSE /\ ev.calls = << >>
            /\ ev.outcome = "resolved"
            /\ SessionIs(NoAdapter, DISCONNECTED)
  /\ (ev.op = "disconnect" /\ ev.step \in {"disconnectResolved", "disconnectRejected"}) =>
       /\ ev.outcome # "pending"
       /\ SessionIs(NoAdapter, DISCONNECTED)

\* C15 witness: disconnect() from an adapter without the feature ended with no
\* adapter call
C15_Witness ==
  /\ ev.op = "disconnect" /\ ev.step = "call" /\ PreCallable
  /\ FeatureDisconnect \notin AdapterById[ev.pre.walletAdapter].features
  /\ ev.outcome = "resolved"
  /\ ev.calls = << >>

\* C16: when select(B) is issued while Connected to another wallet A and A's
\* disconnect call throws, select is rejected with that failure, calls
\* connect on no adapter, and the session is Disconnected with no adapter.
C16_SelectDisconnectThrow ==
  (ev.op = "select" /\ ev.step = "disconnectRejected") =>
    /\ ev.outcome = "rejected"
    /\ ev.error = AdapterFailure(ev.adapter, "disconnect")
    /\ ev.calls = << >>
    /\ SessionIs(NoAdapter, DISCONNECTED)

\* C16 witness: select of an available wallet was rejected by the throw of the
\* connected adapter's disconnect
C16_Witness ==
  /\ ev.op = "select" /\ ev.step = "disconnectRejected"
  /\ ~UnknownName(ev.walletName)
  /\ ev.pre.walletAdapter = ev.adapter
  /\ ev.pre.status = CONNECTED
  /\ AdapterById[ev.adapter].name # ev.walletName

\* C17: select(name) calls connect only on a present adapter that belongs to
\* an installed entry of allAvailableWallets with the requested name, and is
\* never rejected with connect's "adapter is missing" failure.
C17_SelectConnectsAvailableAdapter ==
  ev.op = "select" =>
    /\ ev.error # KitError(AdapterMissingMsg)
    /\ \A i \in 1..Len(ev.calls) :
         ev.calls[i].method = "connect" =>
           /\ ev.calls[i].adapter # NoAdapter
           /\ \E k \in 1..Len(allAvailableWallets) :
                /\ allAvailableWallets[k].adapter = ev.calls[i].adapter
                /\ allAvailableWallets[k].installed
                /\ allAvailableWallets[k].name = ev.walletName

\* C17 witness: select called connect after it disconnected another wallet
C17_Witness ==
  /\ ev.op = "select" /\ ev.step = "resume"
  /\ Len(ev.calls) = 1
  /\ ev.calls[1].method = "connect"
  /\ AdapterById[ev.calls[1].adapter].name = ev.walletName

\* C18: a select(name) that fails with WalletNotAvailable after it found the
\* session Connected to another wallet leaves the session Disconnected with
\* no adapter.
C18_NotAvailableAfterDisconnect ==
  (/\ ev.op = "select" /\ ev.step = "resume"
   /\ ev.outcome = "rejected"
   /\ ev.error = WalletNotAvailable(ev.walletName)) =>
    SessionIs(NoAdapter, DISCONNECTED)

ConnectPending == \E o \in InFlight : o.pc = "awaitAdapterConnect"
SettleSteps == {"connectResolved", "connectRejected",
                "disconnectResolved", "disconnectRejected"}

\* C19: status is Connecting only while an adapter connect call is pending;
\* when every pending connect call is eventually settled, status always
\* leaves Connecting again; and status leaves Connecting only in a step that
\* settles an adapter call, which is the settlement of the connect call when
\* that is the only call in flight: no invocation moves it.
C19_ConnectingWhileConnectPending ==
  /\ [](status = CONNECTING => ConnectPending)
  /\ (status = CONNECTING) ~> (status # CONNECTING)
  /\ [][ (status = CONNECTING /\ status' # CONNECTING) =>
           /\ ev'.step \in SettleSteps
           /\ BagCardinality(ops) = 1 =>
                ev'.step \in {"connectResolved", "connectRejected"} ]_vars

\* C19 witness: status is Connecting with two connect calls pending
C19_Witness ==
  /\ status = CONNECTING
  /\ BagCardinality(ops) = 2
  /\ \A o \in InFlight : o.pc = "awaitAdapterConnect"

\* C20: getAccounts, signMessage, signAndExecuteTransaction, executeMoveCall
\* and getPublicKey leave walletAdapter and status unchanged, whether they
\* succeed, fail their guard or the adapter call they delegate to rejects;
\* every step that changes walletAdapter or status is a step of select or of
\* disconnect (connect runs inside select only).
C20_FacadeLeavesSession ==
  [][ /\ ev'.op \in FacadeOps => UNCHANGED << walletAdapter, status >>
      /\ << walletAdapter, status >>' # << walletAdapter, status >> =>
           ev'.op \in {"select", "disconnect"} ]_vars

\* C20 witness: the adapter rejected a delegated signAndExecuteTransaction
\* call and the session is still connected to that adapter
C20_Witness ==
  /\ ev.op = "signAndExecuteTransaction"
  /\ ev.outcome = "rejected"
  /\ ev.error = AdapterFailure(walletAdapter, "signAndExecuteTransaction")
  /\ ev.calls # << >>
  /\ status = CONNECTED
  /\ walletAdapter # NoAdapter

\* in-flight calls that observed the session as callable, invoked
\* adapter a's disconnect and still await it
PendingDisconnectsOn(a) ==
  { o \in InFlight : /\ o.pc = "awaitAdapterDisconnect"
                     /\ o.wasCallable
                     /\ o.adapter = a }

\* no two overlapping calls both invoked the same adapter's disconnect
NoDoubleDisconnect ==
  \A a \in AdapterIds :
    /\ Cardinality(PendingDisconnectsOn(a)) <= 1
    /\ \A o \in PendingDisconnectsOn(a) : CopiesIn(o, ops) = 1

\* the settlement of adapter a's disconnect leaves alone a session that is
\* connected to another adapter
LateDisconnectKeepsSession ==
  (/\ ev.step \in {"disconnectResolved", "disconnectRejected"}
   /\ ev.pre.status = CONNECTED
   /\ ev.pre.walletAdapter \notin {NoAdapter, ev.adapter})
  => SessionIs(ev.pre.walletAdapter, ev.pre.status)

\* C21: under any interleaving of disconnect and select calls, two overlapping
\* calls that both observed the session as callable never both invoke the
\* same adapter's disconnect, and a disconnect that completes late never
\* resets a session that has meanwhile been connected to another adapter.
C21_DisconnectOncePerConnect ==
  /\ NoDoubleDisconnect
  /\ LateDisconnectKeepsSession

====
